---- MODULE Spec2Model ----
(***************************************************************************)
(* A model of gpkit's variable-identity subsystem (gpkit/varkey.py), of   *)
(* the NomialData aggregate (gpkit/nomials/data.py) and of the NomialMap   *)
(* operations that NomialData is built on.                                 *)
(*                                                                         *)
(* Python values are modelled as follows.                                  *)
(*   - None is the empty tuple, any other value v is the 1-tuple <<v>>,    *)
(*     so that values of different Python types never meet in one          *)
(*     comparison;                                                         *)
(*   - a dict is a function whose DOMAIN is the set of keys it holds;      *)
(*   - an object is an index into a heap (a sequence): descrs holds the    *)
(*     attribute bags, keys holds the VarKey objects;                      *)
(*   - str values are TLA+ strings, and every rendering (str(), "%s" %)    *)
(*     is computed character for character.                                *)
(***************************************************************************)
EXTENDS Integers, Sequences, FiniteSets, TLC

VARIABLES
    descrs,   \* heap of attribute bags (the dicts bound to VarKey.descr)
    keys,     \* heap of VarKey objects
    count,    \* Count().count behind VarKey.unique_id
    calls,    \* number of VarKey(...) calls made by the client so far
    nd,       \* a NomialData object
    mutated,  \* whether nd.hmap was changed after nd was constructed
    dictorder,\* the order in which the dicts of this run enumerate VarKeys
    other,    \* a second NomialData object, which nd is compared with
    args,     \* the arguments of the call of a NomialMap operation
    res       \* what the last call of diff or of a NomialMap operation gave

vkvars == <<descrs, keys, count, calls>>
ndvars == <<nd, mutated, dictorder, other, args, res>>
vars == <<descrs, keys, count, calls, nd, mutated, dictorder, other, args, res>>

-----------------------------------------------------------------------------
(* Bounds *)

MaxCalls == 2       \* client calls of VarKey(...) in one behaviour
MaxTerms == 2       \* terms of the map a NomialData is constructed from
HashMod == 7        \* size of the range of the model of hash(str)

-----------------------------------------------------------------------------
(* Python values *)

None == << >>
Val(v) == <<v>>
EmptyDict == [a \in {} |-> None]

\* dict.get(attr, None)
Get(d, attr) == IF attr \in DOMAIN d THEN d[attr] ELSE None

\* truth value of a str-or-None and of a sequence-or-None
TruthyStr(v) == v # None /\ v[1] # ""
TruthySeq(v) == v # None /\ Len(v[1]) > 0

\* a reference to a VarKey object, as it is passed for `name`
Ref(k) == <<"VarKey", k>>
IsVarKey(name) == Len(name) = 2

\* the set of the elements of a list
Elements(list) == {list[j] : j \in 1..Len(list)}

-----------------------------------------------------------------------------
(* Renderings *)

\* str(int) for the ints that occur: TLC's ToString is decimal
StrInt(n) == ToString(n)

\* str(t) of a tuple of ints: (0,) -> "(0,)", (0, 1) -> "(0, 1)"
RECURSIVE JoinInts(_)
JoinInts(t) ==
    IF Len(t) = 1 THEN StrInt(t[1])
    ELSE StrInt(t[1]) \o ", " \o JoinInts(Tail(t))

StrTuple(t) ==
    IF Len(t) = 0 THEN "()"
    ELSE IF Len(t) = 1 THEN "(" \o StrInt(t[1]) \o ",)"
    ELSE "(" \o JoinInts(t) \o ")"

\* repr of one (name, num) pair of a lineage: ('A', 0)
ReprPair(p) == "('" \o p[1] \o "', " \o StrInt(p[2]) \o ")"

RECURSIVE JoinPairs(_)
JoinPairs(l) ==
    IF Len(l) = 1 THEN ReprPair(l[1])
    ELSE ReprPair(l[1]) \o ", " \o JoinPairs(Tail(l))

\* str(self.lineage): "None", or the repr of the list of pairs
StrLineage(v) ==
    IF v = None THEN "None"
    ELSE IF Len(v[1]) = 0 THEN "[]"
    ELSE "[" \o JoinPairs(v[1]) \o "]"

-----------------------------------------------------------------------------
(* Collaborators of VarKey that live outside varkey.py *)

\* GPkitObject.lineagestr(modelnums): the model names of the lineage joined
\* by "/", each followed by "." and its number when modelnums is set and the
\* number is positive (the rendering VarKey.latex gives); "" when there is no
\* lineage
LineageItem(p, modelnums) ==
    IF modelnums /\ p[2] > 0 THEN p[1] \o "." \o StrInt(p[2]) ELSE p[1]

RECURSIVE JoinLineage(_, _)
JoinLineage(l, modelnums) ==
    IF Len(l) = 1 THEN LineageItem(l[1], modelnums)
    ELSE LineageItem(l[1], modelnums) \o "/" \o JoinLineage(Tail(l), modelnums)

lineagestr(lineage, modelnums) ==
    IF ~TruthySeq(lineage) THEN "" ELSE JoinLineage(lineage[1], modelnums)

\* qty(unitrepr): the unit service's quantity for a unit string, an opaque
\* object that is a function of the string
qty(unitrepr) == Val("qty:" \o unitrepr[1])

\* Count.next: advances the process-wide counter and returns its new value
Count_next(st) ==
    [st |-> [st EXCEPT !.count = @ + 1], value |-> st.count + 1]

\* hash(str): a deterministic function of the string that is not injective
PyHash(s) == Len(s) % HashMod

-----------------------------------------------------------------------------
(* VarKey *)

\* a placeholder that leaves the id out
Placeholder_NoId(n) == "\\fbox{}"

\* "\\fbox{%s}" % VarKey.unique_id()
Placeholder(n) == "\\fbox{" \o StrInt(n) \o "}"

\* VarKey.str_without, on the attribute bag d of the key
SubscriptStr(d, excluded, subscript) ==
    IF subscript = "lineage"
    THEN IF TruthySeq(Get(d, "lineage")) /\ "lineage" \notin excluded
         THEN "_" \o lineagestr(d["lineage"], "modelnums" \notin excluded)
         ELSE ""
    ELSE IF TruthySeq(Get(d, "idx")) /\ "idx" \notin excluded
         THEN "_" \o StrTuple(d["idx"][1])
         ELSE ""

str_without(d, excluded) ==
    d["name"][1] \o SubscriptStr(d, excluded, "lineage")
                 \o SubscriptStr(d, excluded, "idx")

\* the dimensionless test without the empty string
IsDimensionless_NoEmpty(unitrepr) == unitrepr \in {Val("-"), None}

\* the test `unitrepr in ["", "-", None]`
IsDimensionless(unitrepr) == unitrepr \in {Val(""), Val("-"), None}

\* the identity string without the lineage
MakeEqstr_NoLineage(cleanstr, d) == cleanstr \o d["unitrepr"][1]

\* self.eqstr = self.cleanstr + str(self.lineage) + self.unitrepr
MakeEqstr(cleanstr, d) ==
    cleanstr \o StrLineage(Get(d, "lineage")) \o d["unitrepr"][1]

\* line 31: unitrepr = self.unitrepr or self.units
UnitreprArg(d) ==
    IF TruthyStr(Get(d, "unitrepr")) THEN d["unitrepr"] ELSE Get(d, "units")

\* lines 32-37: the unit entries of the attribute bag
SetUnits(d, unitrepr) ==
    IF IsDimensionless(unitrepr)
    THEN ("units" :> None) @@ ("unitrepr" :> Val("-")) @@ d
    ELSE ("units" :> qty(unitrepr)) @@ ("unitrepr" :> unitrepr) @@ d

\* a new dict on the heap: returns the heap and the dict's address
AllocDescr(st, d) ==
    [st |-> [st EXCEPT !.descrs = Append(@, d)], d |-> Len(st.descrs) + 1]

\* lines 29-37 with the name in hand: kwargs becomes the attribute bag
FillDescr(st, nm, kwargs) ==
    AllocDescr(st, SetUnits(("name" :> nm) @@ kwargs,
                            UnitreprArg(("name" :> nm) @@ kwargs)))

\* line 30 when no name was passed; c is what VarKey.unique_id() returned
FillAnonDescr(c, kwargs) == FillDescr(c.st, Val(Placeholder(c.value)), kwargs)

\* lines 29-37: the attribute bag of a key that is not made from a VarKey
NewDescr(st, name, kwargs) ==
    IF TruthyStr(name) THEN FillDescr(st, name, kwargs)
    ELSE FillAnonDescr(Count_next(st), kwargs)

\* a key made from the VarKey k gets a copy of k's attribute bag
ShareDescr_Copy(st, k, kwargs) == AllocDescr(st, st.descrs[st.keys[k].descr])

\* a key made from the VarKey k writes its kwargs into k's attribute bag
ShareDescr_Update(st, k, kwargs) ==
    [st |-> [st EXCEPT !.descrs[st.keys[k].descr] = kwargs @@ @],
     d |-> st.keys[k].descr]

\* line 27: a key made from the VarKey k shares k's attribute bag
ShareDescr(st, k, kwargs) == [st |-> st, d |-> st.keys[k].descr]

\* keyword arguments passed along with a VarKey make a key of their own:
\* a new bag of the VarKey's attributes overridden by the kwargs
BindDescr_Kwargs(st, name, kwargs) ==
    IF IsVarKey(name) /\ kwargs = EmptyDict THEN ShareDescr(st, name[2], kwargs)
    ELSE IF IsVarKey(name)
    THEN NewDescr(st, st.descrs[st.keys[name[2]].descr]["name"],
                  kwargs @@ [a \in DOMAIN st.descrs[st.keys[name[2]].descr]
                                   \ {"name"} |->
                                st.descrs[st.keys[name[2]].descr][a]])
    ELSE NewDescr(st, name, kwargs)

\* lines 26-37: binds self.descr; returns the heap and the bag's address
BindDescr(st, name, kwargs) ==
    IF IsVarKey(name) THEN ShareDescr(st, name[2], kwargs)
    ELSE NewDescr(st, name, kwargs)

\* vecdescr = self.descr without the copy: the del hits the key's own bag
VecDescr_Alias(st, d) ==
    [st |-> [st EXCEPT !.descrs[d] =
                [a \in DOMAIN st.descrs[d] \ {"idx"} |-> st.descrs[d][a]]],
     vecdescr |-> [a \in DOMAIN st.descrs[d] \ {"idx"} |-> st.descrs[d][a]]]

\* lines 47-48: vecdescr = self.descr.copy(); del vecdescr["idx"]
VecDescr(st, d) ==
    [st |-> st,
     vecdescr |-> [a \in DOMAIN st.descrs[d] \ {"idx"} |-> st.descrs[d][a]]]

\* no component gets a parent made
NeedsVeckey_Never(d) == FALSE

\* line 46: a component whose bag names no parent gets one made
NeedsVeckey(d) == "veckey" \notin DOMAIN d

\* self.veckey: the instance attribute when __init__ set it, else
\* __getattr__ reads the attribute bag
VarKey_veckey(st, k) ==
    IF st.keys[k].veckey # None THEN st.keys[k].veckey
    ELSE Get(st.descrs[st.keys[k].descr], "veckey")

\* lines 39-43: the identity strings and the hash of the new object; `given`
\* records the arguments of the call
KeyObject(dref, name, cleanstr, eqstr, given) ==
    [descr |-> dref,
     cleanstr |-> cleanstr,
     eqstr |-> eqstr,
     hashvalue |-> PyHash(eqstr),
     keystrs |-> {name, cleanstr},
     keyobjs |-> {},
     veckey |-> None,
     given |-> given]

KeyWithCleanstr(d, dref, cleanstr, given) ==
    KeyObject(dref, d["name"][1], cleanstr, MakeEqstr(cleanstr, d), given)

NewKey(d, dref, given) ==
    KeyWithCleanstr(d, dref, str_without(d, {"modelnums"}), given)

\* lines 50-52: the names the key self answers to
AddKeys(st, self) ==
    [st |-> [st EXCEPT
               !.keys[self].keyobjs = @ \cup {VarKey_veckey(st, self)},
               !.keys[self].keystrs =
                   @ \cup {str_without(st.descrs[st.keys[self].descr],
                                       {"idx"}),
                           str_without(st.descrs[st.keys[self].descr],
                                       {"idx", "modelnums"})}],
     self |-> self]

\* line 49, the assignment: self.veckey = the key n the inner call made
SetVeckey(n, self) == [n.st EXCEPT !.keys[self].veckey = Val(n.self)]

\* VarKey.__init__(name, **kwargs) on a new object: returns the heap after
\* the call and the address of the object
RECURSIVE VarKey_init(_, _, _)

\* line 49, the call: VarKey(**vecdescr)
VarKey_fromDict(st, vecdescr) ==
    VarKey_init(st, vecdescr["name"],
                [a \in DOMAIN vecdescr \ {"name"} |-> vecdescr[a]])

\* the parent is made once for a vector: a component takes the veckey
\* of an earlier component whose attributes without idx are its own
VarKey_synthesize_Once(v, self) ==
    IF \E j \in 1..Len(v.st.keys) :
          /\ j # self
          /\ v.st.keys[j].veckey # None
          /\ VecDescr(v.st, v.st.keys[j].descr).vecdescr = v.vecdescr
    THEN [v.st EXCEPT !.keys[self].veckey =
             v.st.keys[CHOOSE j \in 1..Len(v.st.keys) :
                          /\ j # self
                          /\ v.st.keys[j].veckey # None
                          /\ VecDescr(v.st, v.st.keys[j].descr).vecdescr
                               = v.vecdescr].veckey]
    ELSE SetVeckey(VarKey_fromDict(v.st, v.vecdescr), self)

\* lines 47-49: the parent is made and bound to self.veckey
VarKey_synthesize(v, self) ==
    SetVeckey(VarKey_fromDict(v.st, v.vecdescr), self)

\* lines 45-52, for the key that was just put at the end of the heap
InitVector(st, dref) ==
    IF "idx" \in DOMAIN st.descrs[dref]
    THEN AddKeys(IF NeedsVeckey(st.descrs[dref])
                 THEN VarKey_synthesize(VecDescr(st, dref), Len(st.keys))
                 ELSE st,
                 Len(st.keys))
    ELSE [st |-> st, self |-> Len(st.keys)]

\* lines 39-52, once self.descr is bound
InitObject(b, given) ==
    InitVector([b.st EXCEPT
                  !.keys = Append(@, NewKey(b.st.descrs[b.d], b.d, given))],
               b.d)

VarKey_init(st, name, kwargs) ==
    InitObject(BindDescr(st, name, kwargs),
               [name |-> name, kwargs |-> kwargs])

\* line 65, getattr(value, "__call__", None): of the attributes a client
\* passes, the one under "value" is a function
IsCallable(key, value) == key = "value"

\* str(value) of a function
StrFunction(value) == Val("<function " \o value[1][2] \o ">")

\* a state that leaves out unitrepr along with units
VarKey_getstate_NoUnitrepr(st, k) ==
    [st |-> st,
     state |-> [a \in DOMAIN st.descrs[st.keys[k].descr] \ {"units", "unitrepr"} |->
                   IF IsCallable(a, st.descrs[st.keys[k].descr][a])
                   THEN StrFunction(st.descrs[st.keys[k].descr][a])
                   ELSE st.descrs[st.keys[k].descr][a]]]

\* VarKey.__getstate__: the heap after the call and the state returned, a
\* copy of the attribute bag without units and with functions as strings
VarKey_getstate(st, k) ==
    [st |-> st,
     state |-> [a \in DOMAIN st.descrs[st.keys[k].descr] \ {"units"} |->
                   IF IsCallable(a, st.descrs[st.keys[k].descr][a])
                   THEN StrFunction(st.descrs[st.keys[k].descr][a])
                   ELSE st.descrs[st.keys[k].descr][a]]]

\* VarKey.__setstate__(state) on a new object: self.__init__(**state)
VarKey_setstate(st, state) == VarKey_fromDict(st, state)

\* pickle: the object that __setstate__ makes of what __getstate__ of the
\* key k returned
Restored(g) == VarKey_setstate(g.st, g.state)

\* the hash of the object's address, and equality on the clean name alone
VarKey_hash_ById(st, k) == k % HashMod

VarKey_eq_ByCleanstr(st, a, b) == st.keys[a].cleanstr = st.keys[b].cleanstr

\* VarKey.__hash__ and VarKey.__eq__ (between two VarKeys)
VarKey_hash(st, k) == st.keys[k].hashvalue

VarKey_eq(st, a, b) == st.keys[a].eqstr = st.keys[b].eqstr

\* VarKey.__getattr__: any other attribute is read from the attribute bag
VarKey_getattr(st, k, attr) == Get(st.descrs[st.keys[k].descr], attr)

-----------------------------------------------------------------------------
(* Lookup by name in a set of constraints, as test_constraintget uses it *)

\* the keys of the collection that answer to the string s
variables_byname(st, coll, s) == {k \in coll : s \in st.keys[k].keystrs}

\* every key found is a component of one and the same vector
AllOneVector(st, found) ==
    \A a \in found :
        /\ VarKey_veckey(st, a) # None
        /\ \A b \in found :
             /\ VarKey_veckey(st, b) # None
             /\ VarKey_eq(st, VarKey_veckey(st, a)[1], VarKey_veckey(st, b)[1])

\* the outcome of collection[s]: no key answers (KeyError), the keys found
\* are one vector, one variable answers, or several do (ValueError)
LookupOutcome(st, found) ==
    IF found = {} THEN "KeyError"
    ELSE IF AllOneVector(st, found) THEN "vector"
    ELSE IF Cardinality({st.keys[k].eqstr : k \in found}) = 1 THEN "variable"
    ELSE "ValueError"

ConstraintSet_getitem(st, coll, s) ==
    LookupOutcome(st, variables_byname(st, coll, s))

-----------------------------------------------------------------------------
(* NomialData *)

\* A NomialMap is a dict from exponent vectors to coefficients with a units
\* attribute. items is the dict in its enumeration order, one <<exp, c>>
\* pair per key; keys() and values() enumerate it in that order.
DictKeys(hmap) == [i \in 1..Len(hmap.items) |-> hmap.items[i][1]]

DictValues(hmap) == [i \in 1..Len(hmap.items) |-> hmap.items[i][2]]

DictHas(hmap, exp) == \E i \in 1..Len(hmap.items) : hmap.items[i][1] = exp

DictGet(hmap, exp) ==
    hmap.items[CHOOSE i \in 1..Len(hmap.items) : hmap.items[i][1] = exp][2]

\* hmap[exp] = c. An entry that exists keeps its place; a new key is
\* enumerated at the place p its hash gives it, which may be any, and the
\* other keys keep their order.
DictSet(hmap, exp, c, p) ==
    IF DictHas(hmap, exp)
    THEN [hmap EXCEPT !.items =
            [i \in 1..Len(@) |-> IF @[i][1] = exp THEN <<exp, c>> ELSE @[i]]]
    ELSE [hmap EXCEPT !.items =
            SubSeq(@, 1, p - 1) \o <<<<exp, c>>>> \o SubSeq(@, p, Len(@))]

\* the VarKeys that occur in exponent vectors
VarOrder == <<"x", "y">>

\* A dict enumerates its keys in an order set by the keys' hashes and not by
\* the order in which they were put in. dictorder is that order for the
\* VarKeys of this run, and is any order of them; a dict of VarKeys
\* enumerates the keys it holds in this order.
DictOrders ==
    {order \in [1..Len(VarOrder) -> Elements(VarOrder)] :
        Elements(order) = Elements(VarOrder)}

InDictOrder(S) == SelectSeq(dictorder, LAMBDA v : v \in S)

\* lines 25-28: the variables in the order in which the loops put them
\* into vks, each when it is first met; `for vk in exp` enumerates the
\* dict exp
RECURSIVE FirstSeen(_, _, _)
FirstSeen(exps, i, seen) ==
    IF i > Len(exps) THEN seen
    ELSE FirstSeen(exps, i + 1,
             seen \o SelectSeq(InDictOrder(DOMAIN exps[i]),
                        LAMBDA v : \A j \in 1..Len(seen) : seen[j] # v))

\* vks of the first exponent vector alone
ComputeVks_FirstTerm(hmap) ==
    InDictOrder(Elements(FirstSeen(
        IF hmap.items = << >> THEN << >> ELSE <<DictKeys(hmap)[1]>>, 1, << >>)))

\* lines 24-28: vks, a dict whose values are all None, as the list of its
\* keys in the order in which it enumerates them
ComputeVks(hmap) == InDictOrder(Elements(FirstSeen(DictKeys(hmap), 1, << >>)))

\* a reset that leaves the two views made from vks
NomialData_reset_KeepViews(self) ==
    [self EXCEPT !.hashvalue = None, !.varlocs = None, !.exps = None,
                 !.cs = None]

\* NomialData._reset
NomialData_reset(self) ==
    [self EXCEPT !.hashvalue = None, !.varlocs = None, !.exps = None,
                 !.cs = None, !.varkeys = None, !.values = None]

\* NomialData.__init__(hmap)
NomialData_init(hmap) ==
    NomialData_reset(
        [hmap |-> hmap,
         vks |-> ComputeVks(hmap),
         units |-> hmap.units,
         any_nonpositive_cs |->
             \E i \in 1..Len(hmap.items) : hmap.items[i][2] <= 0,
         hashvalue |-> None, varlocs |-> None, exps |-> None,
         cs |-> None, varkeys |-> None, values |-> None])

\* the exps property: the object after the read and the value read
NomialData_exps(self) ==
    IF self.exps = None
    THEN [self |-> [self EXCEPT !.exps = Val(DictKeys(self.hmap))],
          value |-> DictKeys(self.hmap)]
    ELSE [self |-> self, value |-> self.exps[1]]

\* lines 57-59: the array of the map's values, times the units if any
ComputeCs_Reversed(hmap) ==
    [mags |-> [i \in 1..Len(hmap.items) |->
                  DictValues(hmap)[Len(hmap.items) + 1 - i]],
     units |-> hmap.units]

ComputeCs(hmap) == [mags |-> DictValues(hmap), units |-> hmap.units]

\* the cs property
NomialData_cs(self) ==
    IF self.cs = None
    THEN [self |-> [self EXCEPT !.cs = Val(ComputeCs(self.hmap))],
          value |-> ComputeCs(self.hmap)]
    ELSE [self |-> self, value |-> self.cs[1]]

\* lines 43-45 for one exponent vector: i is appended to the list of each
\* of its variables, and a variable met for the first time gets a new list
AppendLoc_FromOne(varlocs, exp, i) ==
    [v \in DOMAIN varlocs \cup DOMAIN exp |->
        IF v \notin DOMAIN exp THEN varlocs[v]
        ELSE IF v \in DOMAIN varlocs THEN Append(varlocs[v], i + 1)
        ELSE <<i + 1>>]

AppendLoc(varlocs, exp, i) ==
    [v \in DOMAIN varlocs \cup DOMAIN exp |->
        IF v \notin DOMAIN exp THEN varlocs[v]
        ELSE IF v \in DOMAIN varlocs THEN Append(varlocs[v], i)
        ELSE <<i>>]

\* lines 41-45: the loop over enumerate(self.exps), which counts from 0;
\* n is the number of exponent vectors already visited
RECURSIVE VarlocsLoop(_, _, _)
VarlocsLoop(exps, n, varlocs) ==
    IF n = Len(exps) THEN varlocs
    ELSE VarlocsLoop(exps, n + 1, AppendLoc(varlocs, exps[n + 1], n))

\* lines 40-45: for every variable the indices, counted from 0, of the
\* exponent vectors that have it
ComputeVarlocs(exps) == VarlocsLoop(exps, 0, EmptyDict)

\* varlocs computed from the keys of the map without caching exps
VarlocsOf_ExpsUncached(e) ==
    [self |-> [e.self EXCEPT !.varlocs = Val(ComputeVarlocs(e.value)),
                             !.exps = None],
     value |-> ComputeVarlocs(e.value)]

\* lines 39-45 after the read of self.exps in line 41
VarlocsOf(e) ==
    [self |-> [e.self EXCEPT !.varlocs = Val(ComputeVarlocs(e.value))],
     value |-> ComputeVarlocs(e.value)]

\* the varlocs property, which reads the exps property
NomialData_varlocs(self) ==
    IF self.varlocs = None THEN VarlocsOf(NomialData_exps(self))
    ELSE [self |-> self, value |-> self.varlocs[1]]

-----------------------------------------------------------------------------
(* Collaborators of NomialData that live outside nomials/data.py *)

\* the orders in which a dict that holds these items may enumerate them
Enumerations(items) ==
    {s \in [1..Len(items) -> Elements(items)] : Elements(s) = Elements(items)}

\* The keys of a VarKey (VarKey.keys): what it is filed under in a KeySet.
\* x and y are the two components of the vector v, so each is filed under
\* itself and under v.
FiledUnder(vk) == {vk, "v"}

\* KeySet(vks): from every key of a VarKey to the VarKeys filed under it
KeySet_init(vks) ==
    [k \in UNION {FiledUnder(vks[i]) : i \in 1..Len(vks)} |->
        {vk \in Elements(vks) : k \in FiledUnder(vk)}]

\* KeySet.__getitem__: the VarKeys filed under key, none if there is none
KeySet_getitem(keyset, key) ==
    IF key \in DOMAIN keyset THEN keyset[key] ELSE {}

\* exp without the variable vk
DictDel(exp, vk) == [w \in DOMAIN exp \ {vk} |-> exp[w]]

\* out[exp] = out.get(exp, 0) + c on the items of a map under construction
Accumulate_Overwrite(items, exp, c) ==
    IF \E i \in 1..Len(items) : items[i][1] = exp
    THEN [i \in 1..Len(items) |->
            IF items[i][1] = exp THEN <<exp, c>> ELSE items[i]]
    ELSE Append(items, <<exp, c>>)

Accumulate(items, exp, c) ==
    IF \E i \in 1..Len(items) : items[i][1] = exp
    THEN [i \in 1..Len(items) |->
            IF items[i][1] = exp THEN <<exp, items[i][2] + c>> ELSE items[i]]
    ELSE Append(items, <<exp, c>>)

\* the exponent of vk in exp, 0 if exp does not have it
ExponentOf(exp, vk) == IF vk \in DOMAIN exp THEN exp[vk] ELSE 0

\* the exponent of vk one less, and vk kept when that is zero
DiffExp_KeepZero(exp, vk) ==
    IF vk \notin DOMAIN exp THEN exp
    ELSE [exp EXCEPT ![vk] = @ - 1]

\* the exponent vector of the derivative of a term: the exponent of vk
\* is one less, and vk is left out if that is zero; a term without vk
\* keeps its exponent vector
DiffExp(exp, vk) ==
    IF vk \notin DOMAIN exp THEN exp
    ELSE IF exp[vk] = 1 THEN DictDel(exp, vk)
    ELSE [exp EXCEPT ![vk] = @ - 1]

\* the derivative without the terms that do not have vk
RECURSIVE DiffLoop_DropFree(_, _, _)
DiffLoop_DropFree(items, vk, n) ==
    IF n = 0 THEN << >>
    ELSE IF vk \notin DOMAIN items[n][1] THEN DiffLoop_DropFree(items, vk, n - 1)
    ELSE Accumulate(DiffLoop_DropFree(items, vk, n - 1),
                    DiffExp(items[n][1], vk),
                    items[n][2] * items[n][1][vk])

\* the terms of the derivative of the first n terms
RECURSIVE DiffLoop(_, _, _)
DiffLoop(items, vk, n) ==
    IF n = 0 THEN << >>
    ELSE Accumulate(DiffLoop(items, vk, n - 1),
                    DiffExp(items[n][1], vk),
                    items[n][2] * ExponentOf(items[n][1], vk))

\* NomialMap.diff(vk): every term's coefficient times its exponent of vk;
\* the variables of this model have no unit, so the unit stays
NomialMap_diff(hmap, vk) ==
    [items |-> DiffLoop(hmap.items, vk, Len(hmap.items)),
     units |-> hmap.units]

\* str(units)
StrUnits(units) == IF units = None THEN "None" ELSE units[1]

\* hash of an exponent vector, a function of its content
RECURSIVE HashVector_hashOver(_, _)
HashVector_hashOver(exp, vks) ==
    IF vks = {} THEN 0
    ELSE (PyHash(CHOOSE v \in vks : TRUE) * 3
          + exp[CHOOSE v \in vks : TRUE]
          + HashVector_hashOver(exp, vks \ {CHOOSE v \in vks : TRUE})) % HashMod

HashVector_hash(exp) == HashVector_hashOver(exp, DOMAIN exp)

\* hash(hmap): the hashes of the items of the map in enumeration order,
\* combined by an operation that commutes
RECURSIVE NomialMap_hashUpTo(_, _)
NomialMap_hashUpTo(items, n) ==
    IF n = 0 THEN 0
    ELSE (NomialMap_hashUpTo(items, n - 1)
          + HashVector_hash(items[n][1]) * 2 + items[n][2]) % HashMod

NomialMap_hash(hmap) == NomialMap_hashUpTo(hmap.items, Len(hmap.items))

-----------------------------------------------------------------------------
(* NomialMap: construction from terms, scaling and addition *)

\* the terms put into a new map one after the other
RECURSIVE FromTermsLoop(_, _)
FromTermsLoop(terms, n) ==
    IF n = 0 THEN << >>
    ELSE Accumulate(FromTermsLoop(terms, n - 1), terms[n][1], terms[n][2])

\* the map of a list of terms with its unit
NomialMap_fromTerms(terms, units) ==
    [items |-> FromTermsLoop(terms, Len(terms)), units |-> units]

\* scale(map, k) by a number k without a unit
NomialMap_scale(hmap, k) ==
    [hmap EXCEPT !.items = [i \in 1..Len(@) |-> <<@[i][1], @[i][2] * k>>]]

\* the physical dimension of a unit
Dimension(units) ==
    IF units = None THEN "dimensionless"
    ELSE IF units[1] = "s" THEN "time"
    ELSE "length"

\* whether the units of two maps can be reconciled; the units of this model
\* that are compatible are equal, so that no coefficient needs converting
Compatible(u, v) == Dimension(u) = Dimension(v)

UnitMismatch == "ValueError: incompatible units"

\* the first n terms of b added to items
RECURSIVE MergeLoop(_, _, _)
MergeLoop(items, bitems, n) ==
    IF n = 0 THEN items
    ELSE Accumulate(MergeLoop(items, bitems, n - 1), bitems[n][1], bitems[n][2])

\* no pruning
RemoveZeros_None(items) == items

\* the terms whose coefficient is not zero
RemoveZeros(items) == SelectSeq(items, LAMBDA t : t[2] # 0)

\* add that merges before it looks at the units
NomialMap_add_MergeFirst(a, b) ==
    [a |-> a, b |-> b,
     raised |-> IF Compatible(a.units, b.units) THEN None
                ELSE Val(UnitMismatch),
     value |-> Val([items |-> RemoveZeros(MergeLoop(a.items, b.items,
                                                    Len(b.items))),
                    units |-> a.units])]

\* add(a, b): the operands after the call, and the error raised or the map
\* returned
NomialMap_add(a, b) ==
    IF ~Compatible(a.units, b.units)
    THEN [a |-> a, b |-> b, raised |-> Val(UnitMismatch), value |-> None]
    ELSE [a |-> a, b |-> b, raised |-> None,
          value |-> Val([items |-> RemoveZeros(MergeLoop(a.items, b.items,
                                                         Len(b.items))),
                         units |-> a.units])]

\* what a call returns, for every order in which the new map may enumerate
\* its terms
MapReturns(r) ==
    IF r.value = None THEN {[raised |-> r.raised, value |-> None]}
    ELSE {[raised |-> r.raised,
           value |-> Val([items |-> items, units |-> r.value[1].units])] :
             items \in Enumerations(r.value[1].items)}

-----------------------------------------------------------------------------
(* NomialData: hash, varkeys, diff and equality *)

\* the hash of the tuple of the items, in which the place of an item counts
RECURSIVE HashOfTuple(_, _)
HashOfTuple(items, n) ==
    IF n = 0 THEN 0
    ELSE (HashOfTuple(items, n - 1) * 3
          + HashVector_hash(items[n][1]) * 2 + items[n][2]) % HashMod

ComputeHash_OfTuple(hmap) ==
    (HashOfTuple(hmap.items, Len(hmap.items))
     + PyHash(StrUnits(hmap.units))) % HashMod

\* line 66: the hash computed from the map and the string of its units

ComputeHash(hmap) ==
    (NomialMap_hash(hmap) + PyHash(StrUnits(hmap.units))) % HashMod

\* NomialData.__hash__: the object after the call and the value returned
NomialData_hash(self) ==
    IF self.hashvalue = None
    THEN [self |-> [self EXCEPT !.hashvalue = Val(ComputeHash(self.hmap))],
          value |-> ComputeHash(self.hmap)]
    ELSE [self |-> self, value |-> self.hashvalue[1]]

\* the varkeys property
NomialData_varkeys(self) ==
    IF self.varkeys = None
    THEN [self |-> [self EXCEPT !.varkeys = Val(KeySet_init(self.vks))],
          value |-> KeySet_init(self.vks)]
    ELSE [self |-> self, value |-> self.varkeys[1]]

\* k.descr of the VarKeys of the maps: x was given a value, y was not
DescrOfKey(k) == IF k = "x" THEN "value" :> 3 ELSE EmptyDict

\* KeyDict(dict): the dict itself, under the keys it was given
KeyDict_init(d) == d

\* lines 80-81
ComputeValues(vks) ==
    KeyDict_init([k \in {vk \in Elements(vks) : "value" \in DOMAIN DescrOfKey(vk)} |->
                     DescrOfKey(k)["value"]])

\* the values property
NomialData_values(self) ==
    IF self.values = None
    THEN [self |-> [self EXCEPT !.values = Val(ComputeValues(self.vks))],
          value |-> ComputeValues(self.vks)]
    ELSE [self |-> self, value |-> self.values[1]]

\* line 101-102: the map of the constant zero, without units
ZeroConstant_NoTerm == [items |-> << >>, units |-> None]

ZeroConstant == [items |-> <<<<EmptyDict, 0>>>>, units |-> None]

MultipleVariables == "ValueError: multiple variables found for key"

\* lines 97-105 with self.hmap written to
DiffOf_InPlace(self, varset) ==
    IF Cardinality(varset) > 1
    THEN [self |-> [self EXCEPT !.hmap = ZeroConstant],
          raised |-> Val(MultipleVariables), hmap |-> None]
    ELSE IF Cardinality(varset) = 0
    THEN [self |-> [self EXCEPT !.hmap = ZeroConstant],
          raised |-> None, hmap |-> Val(ZeroConstant)]
    ELSE [self |-> [self EXCEPT !.hmap =
                       NomialMap_diff(self.hmap, CHOOSE vk \in varset : TRUE)],
          raised |-> None,
          hmap |-> Val(NomialMap_diff(self.hmap, CHOOSE vk \in varset : TRUE))]

\* lines 97-105 without the check of line 97
DiffOf_NoCheck(self, varset) ==
    IF Cardinality(varset) = 0
    THEN [self |-> self, raised |-> None, hmap |-> Val(ZeroConstant)]
    ELSE [self |-> self, raised |-> None,
          hmap |-> Val(NomialMap_diff(self.hmap, CHOOSE vk \in varset : TRUE))]

\* lines 97-105: what diff does with the VarKeys that var resolved to:
\* the error it raises, or the map of the NomialData it returns
DiffOf(self, varset) ==
    IF Cardinality(varset) > 1
    THEN [self |-> self, raised |-> Val(MultipleVariables), hmap |-> None]
    ELSE IF Cardinality(varset) = 0
    THEN [self |-> self, raised |-> None, hmap |-> Val(ZeroConstant)]
    ELSE [self |-> self, raised |-> None,
          hmap |-> Val(NomialMap_diff(self.hmap, CHOOSE vk \in varset : TRUE))]

\* line 112, self.hmap != other.hmap, as dicts compare: by their keys and
\* the values of the keys
DictNe(a, b) ==
    \/ Len(a.items) # Len(b.items)
    \/ \E i \in 1..Len(a.items) :
         \/ ~DictHas(b, a.items[i][1])
         \/ DictGet(b, a.items[i][1]) # a.items[i][2]

\* __eq__ with the terms compared in the order of their enumeration
NomialData_eq_InOrder(self, oth) ==
    IF self.hmap.items # oth.hmap.items THEN FALSE
    ELSE IF self.units # oth.units THEN FALSE
    ELSE TRUE

\* __eq__ without lines 114-115
NomialData_eq_NoUnits(self, oth) ==
    IF DictNe(self.hmap, oth.hmap) THEN FALSE
    ELSE TRUE

\* NomialData.__eq__(other), other a NomialData
NomialData_eq(self, oth) ==
    IF DictNe(self.hmap, oth.hmap) THEN FALSE
    ELSE IF self.units # oth.units THEN FALSE
    ELSE TRUE

\* line 96: varset = self.varkeys[var]
DiffWith(vk, var) == DiffOf(vk.self, KeySet_getitem(vk.value, var))

\* NomialData.diff(var)
NomialData_diff(self, var) == DiffWith(NomialData_varkeys(self), var)

\* line 106: NomialData(hmap), for every order in which the new map may
\* enumerate its terms
DiffReturns(d) ==
    IF d.raised # None THEN {[raised |-> d.raised, value |-> None]}
    ELSE {[raised |-> None,
           value |-> Val(NomialData_init([items |-> items,
                                          units |-> d.hmap[1].units]))] :
             items \in Enumerations(d.hmap[1].items)}

-----------------------------------------------------------------------------
(* SolutionArray *)

\* A SolutionArray is a dict with the items "cost", if it has one, and
\* "variables". A number is <<"float", n>>, an array is <<"array", list>>
\* and a Monomial is <<"Monomial", c, key>>; cost is <<"absent">> when the
\* dict has no "cost". What is substituted into is a record: its kind
\* (str, Variable), and the key it stands for.

\* SolutionArray.__len__
SolutionArray_len(self) ==
    IF self.cost[1] = "absent" THEN 0
    ELSE IF self.cost[1] = "float" THEN 1
    ELSE Len(self.cost[2])

\* posy in self["variables"]
InVariables(self, posy) == posy.key \in DOMAIN self.variables

\* hasattr(posy, "sub")
HasSub(posy) == posy.kind # "str"

\* posy.sub(variables) of a Variable: the Monomial of its value if it has
\* one, and of itself if not
Variable_sub(posy, variables) ==
    IF posy.key \in DOMAIN variables
    THEN <<"Monomial", variables[posy.key], "">>
    ELSE <<"Monomial", <<"float", 1>>, posy.key>>

\* an item of a DictOfLists at index i
ItemAt(v, i) == IF v[1] = "array" THEN <<"float", v[2][i]>> ELSE v

\* DictOfLists.atindex(i)
SolutionArray_atindex(self, i) ==
    [cost |-> ItemAt(self.cost, i),
     variables |-> [k \in DOMAIN self.variables |-> ItemAt(self.variables[k], i)]]

NoVariableFound == "ValueError: no variable found in the solution"

\* lines 97-104 of a solution array that holds one solution, or none
SubintoOne(self, posy) ==
    IF InVariables(self, posy)
    THEN [self |-> self, raised |-> None, value |-> Val(self.variables[posy.key])]
    ELSE IF ~HasSub(posy)
    THEN [self |-> self, raised |-> Val(NoVariableFound), value |-> None]
    ELSE [self |-> self, raised |-> None,
          value |-> Val(Variable_sub(posy, self.variables))]

\* subinto with the stored value looked up last
SolutionArray_subinto_SubFirst(self, posy) ==
    IF ~HasSub(posy) /\ ~InVariables(self, posy)
    THEN [self |-> self, raised |-> Val(NoVariableFound), value |-> None]
    ELSE IF HasSub(posy) /\ SolutionArray_len(self) > 1
    THEN [self |-> self, raised |-> None,
          value |-> Val(<<"NomialArray",
                          [i \in 1..SolutionArray_len(self) |->
                              Variable_sub(posy,
                                  SolutionArray_atindex(self, i).variables)]>>)]
    ELSE IF HasSub(posy)
    THEN [self |-> self, raised |-> None,
          value |-> Val(Variable_sub(posy, self.variables))]
    ELSE [self |-> self, raised |-> None, value |-> Val(self.variables[posy.key])]

\* SolutionArray.subinto(posy): the solution array after the call, and the
\* error raised or the value returned
SolutionArray_subinto(self, posy) ==
    IF InVariables(self, posy)
    THEN [self |-> self, raised |-> None, value |-> Val(self.variables[posy.key])]
    ELSE IF ~HasSub(posy)
    THEN [self |-> self, raised |-> Val(NoVariableFound), value |-> None]
    ELSE IF SolutionArray_len(self) > 1
    THEN [self |-> self, raised |-> None,
          value |-> Val(<<"NomialArray",
                          [i \in 1..SolutionArray_len(self) |->
                              SubintoOne(SolutionArray_atindex(self, i),
                                         posy).value[1]]>>)]
    ELSE [self |-> self, raised |-> None,
          value |-> Val(Variable_sub(posy, self.variables))]

\* getattr(posy_subbed, "c", posy_subbed): a Monomial has c, and so has
\* each Monomial of a NomialArray; a number and an array have not
GetC(v) ==
    IF v[1] = "Monomial" THEN v[2]
    ELSE IF v[1] = "NomialArray"
    THEN <<"NomialArray", [i \in 1..Len(v[2]) |-> v[2][i][2]]>>
    ELSE v

\* line 92
CallReturns(r) ==
    IF r.raised # None THEN r
    ELSE [r EXCEPT !.value = Val(GetC(r.value[1]))]

\* SolutionArray.__call__(posy)
SolutionArray_call(self, posy) == CallReturns(SolutionArray_subinto(self, posy))

-----------------------------------------------------------------------------
(* The client: the arguments it passes and the calls it makes *)

LineageA0 == <<<<"A", 0>>>>
LineageA1 == <<<<"A", 1>>>>

Heap == [descrs |-> descrs, keys |-> keys, count |-> count]

\* A parent vector record is passed along with an idx and a name, and is a
\* key made from the same name and attributes without the idx, which is how
\* VectorVariable makes the components of a vector.
VeckeyArgs(name, attrs, i) ==
    IF i = EmptyDict \/ ~TruthyStr(name) THEN {EmptyDict}
    ELSE {EmptyDict} \cup
         {"veckey" :> Val(k) :
            k \in {j \in 1..Len(keys) : /\ keys[j].given.name = name
                                        /\ keys[j].given.kwargs = attrs}}

\* the keyword arguments the client may pass with `name`
KwargsFor(name, Lineages, Idxs, Units) ==
    UNION {{l @@ i @@ u @@ v : v \in VeckeyArgs(name, l @@ u, i)} :
             l \in Lineages, i \in Idxs, u \in Units}

IdxArgs == {EmptyDict, "idx" :> Val(<<0>>)}

\* a client that names its variables and qualifies them with lineages and
\* units
NameArgs == {Val("x"), Val("xm")}
LineageArgs == {EmptyDict, "lineage" :> Val(LineageA0),
                "lineage" :> Val(LineageA1)}
UnitsArgs == {EmptyDict, "units" :> Val("m"), "units" :> Val("mm")}

\* a client that writes a dimensionless unit in every way there is
DimlessNameArgs == {Val("x")}
DimlessLineageArgs == {EmptyDict, "lineage" :> Val(LineageA0)}
DimlessUnitsArgs == {EmptyDict, "units" :> Val(""), "units" :> Val("-"),
                     "units" :> None, "units" :> Val("m"),
                     "units" :> Val("mm")}

\* a client that leaves variables unnamed
AnonNameArgs == {None, Val(""), Val("x")}
AnonLineageArgs == {EmptyDict, "lineage" :> Val(LineageA0)}
AnonUnitsArgs == {EmptyDict, "units" :> Val("m")}

\* keyword arguments passed along with an existing VarKey
DeriveKwargs == {EmptyDict, "lineage" :> Val(LineageA1), "units" :> Val("m")}

\* the counter starts at -1; 8 stands for a process that has already named
\* nine anonymous keys, so that placeholders of one and of two digits occur
InitCounts == {-1, 8}

\* the NomialData of the map without terms
NoTerms == NomialData_init([items |-> << >>, units |-> None])

\* no call of diff or of a NomialMap operation was made yet
NoResult == [raised |-> None, value |-> None]

NoArgs == << >>

Init ==
    /\ descrs = << >>
    /\ keys = << >>
    /\ count = -1
    /\ calls = 0
    /\ dictorder = VarOrder
    /\ nd = NoTerms
    /\ mutated = FALSE
    /\ other = NoTerms
    /\ args = NoArgs
    /\ res = NoResult

InitAnon ==
    /\ descrs = << >>
    /\ keys = << >>
    /\ count \in InitCounts
    /\ calls = 0
    /\ dictorder = VarOrder
    /\ nd = NoTerms
    /\ mutated = FALSE
    /\ other = NoTerms
    /\ args = NoArgs
    /\ res = NoResult

\* the heap and the counter after a call
Becomes(st) ==
    /\ descrs' = st.descrs
    /\ keys' = st.keys
    /\ count' = st.count

\* VarKey(name, **kwargs) with a str or no name
Construct(Names, Lineages, Idxs, Units) ==
    /\ calls < MaxCalls
    /\ \E name \in Names :
         \E kwargs \in KwargsFor(name, Lineages, Idxs, Units) :
           Becomes(VarKey_init(Heap, name, kwargs).st)
    /\ calls' = calls + 1
    /\ UNCHANGED ndvars

\* VarKey(k, **kwargs) with an existing VarKey k
Derive ==
    /\ calls < MaxCalls
    /\ \E k \in 1..Len(keys), kwargs \in DeriveKwargs :
         Becomes(VarKey_init(Heap, Ref(k), kwargs).st)
    /\ calls' = calls + 1
    /\ UNCHANGED ndvars

Next ==
    \/ Construct(NameArgs, LineageArgs, IdxArgs, UnitsArgs)
    \/ Derive

NextDimless ==
    \/ Construct(DimlessNameArgs, DimlessLineageArgs, IdxArgs, DimlessUnitsArgs)
    \/ Derive

NextAnon ==
    \/ Construct(AnonNameArgs, AnonLineageArgs, IdxArgs, AnonUnitsArgs)
    \/ Derive

\* a client that makes the components of the vector x one by one
VecNameArgs == {Val("x")}
VecLineageArgs == {EmptyDict, "lineage" :> Val(LineageA0)}
VecIdxArgs == {EmptyDict, "idx" :> Val(<<0>>), "idx" :> Val(<<1>>)}
VecUnitsArgs == {EmptyDict, "units" :> Val("m")}

NextVec ==
    \/ Construct(VecNameArgs, VecLineageArgs, VecIdxArgs, VecUnitsArgs)
    \/ Derive

\* a client that saves and restores keys; some of its keys carry a
\* function as their value
FunctionArg == "value" :> Val(<<"function", "f">>)
StateNameArgs == {None, Val("x")}
StateAttrArgs == {EmptyDict, "units" :> Val("m"),
                  ("units" :> Val("m")) @@ FunctionArg}

\* the key k is saved with __getstate__ and restored with __setstate__
Restore ==
    /\ calls < MaxCalls
    /\ res = NoResult
    /\ \E k \in 1..Len(keys) :
         /\ Becomes(Restored(VarKey_getstate(Heap, k)).st)
         /\ res' = [raised |-> None,
                    value |-> Val(Restored(VarKey_getstate(Heap, k)).self)]
         /\ args' = [op |-> "restore", of |-> k]
    /\ calls' = calls + 1
    /\ UNCHANGED <<nd, mutated, dictorder, other>>

NextState ==
    \/ Construct(StateNameArgs, AnonLineageArgs, IdxArgs, StateAttrArgs)
    \/ Derive
    \/ Restore

Spec == Init /\ [][Next]_vars

SpecState == InitAnon /\ [][NextState]_vars

SpecVec == Init /\ [][NextVec]_vars

SpecDimless == Init /\ [][NextDimless]_vars

SpecAnon == InitAnon /\ [][NextAnon]_vars

-----------------------------------------------------------------------------
(* The producer and the readers of a NomialData *)

ExpArgs == {EmptyDict, "x" :> 1, ("x" :> 1) @@ ("y" :> 2)}
CoefArgs == {-1, 2}
UnitArgs == {None, Val("m")}

\* term lists without repeated exponent vectors
ItemsOfLen(n) ==
    {items \in [1..n -> ExpArgs \X CoefArgs] :
        \A i \in 1..n, j \in 1..n : i # j => items[i][1] # items[j][1]}

MapArgs ==
    UNION {{[items |-> items, units |-> u] :
               items \in ItemsOfLen(n), u \in UnitArgs} : n \in 0..MaxTerms}

InitND ==
    /\ descrs = << >>
    /\ keys = << >>
    /\ count = -1
    /\ calls = 0
    /\ dictorder \in DictOrders
    /\ \E hmap \in MapArgs : nd = NomialData_init(hmap)
    /\ mutated = FALSE
    /\ other = NoTerms
    /\ args = NoArgs
    /\ res = NoResult

\* a read of nd.exps
ReadExps ==
    /\ nd' = NomialData_exps(nd).self
    /\ nd' # nd
    /\ UNCHANGED <<mutated, dictorder, other, args, res, vkvars>>

\* a read of nd.cs
ReadCs ==
    /\ nd' = NomialData_cs(nd).self
    /\ nd' # nd
    /\ UNCHANGED <<mutated, dictorder, other, args, res, vkvars>>

\* a read of nd.varlocs
ReadVarlocs ==
    /\ nd' = NomialData_varlocs(nd).self
    /\ nd' # nd
    /\ UNCHANGED <<mutated, dictorder, other, args, res, vkvars>>

\* the producer of the map goes on writing to it: nd.hmap[exp] = c
MutateMap ==
    /\ \E exp \in ExpArgs, c \in CoefArgs, p \in 1..(Len(nd.hmap.items) + 1) :
         /\ DictHas(nd.hmap, exp) \/ Len(nd.hmap.items) < MaxTerms
         /\ DictSet(nd.hmap, exp, c, p) # nd.hmap
         /\ nd' = [nd EXCEPT !.hmap = DictSet(@, exp, c, p)]
    /\ mutated' = TRUE
    /\ UNCHANGED <<dictorder, other, args, res, vkvars>>

\* a call of hash(nd)
ReadHash ==
    /\ nd' = NomialData_hash(nd).self
    /\ nd' # nd
    /\ UNCHANGED <<mutated, dictorder, other, args, res, vkvars>>

\* what a client differentiates by: a component, the vector of both
\* components, and a variable that no map has
DiffArgs == {"x", "y", "v", "z"}

\* a call of nd.diff(var)
Diff ==
    /\ calls < MaxCalls
    /\ \E var \in DiffArgs :
         /\ nd' = NomialData_diff(nd, var).self
         /\ res' \in DiffReturns(NomialData_diff(nd, var))
         /\ args' = [var |-> var]
    /\ calls' = calls + 1
    /\ UNCHANGED <<mutated, dictorder, other, descrs, keys, count>>

NextND == ReadExps \/ ReadCs \/ ReadVarlocs \/ MutateMap

SpecND == InitND /\ [][NextND]_vars

\* a NomialData whose owner reads and differentiates it and leaves its
\* map alone
NextDiff == ReadExps \/ ReadCs \/ ReadVarlocs \/ ReadHash \/ Diff

\* diff does not enumerate vks, so one order of enumeration stands for all
InitDiff ==
    /\ descrs = << >>
    /\ keys = << >>
    /\ count = -1
    /\ calls = 0
    /\ dictorder = VarOrder
    /\ \E hmap \in MapArgs : nd = NomialData_init(hmap)
    /\ mutated = FALSE
    /\ other = NoTerms
    /\ args = NoArgs
    /\ res = NoResult

SpecDiff == InitDiff /\ [][NextDiff]_vars

\* two NomialData, made of any two maps
InitEq ==
    /\ descrs = << >>
    /\ keys = << >>
    /\ count = -1
    /\ calls = 0
    /\ dictorder = VarOrder
    /\ \E hmap \in MapArgs : nd = NomialData_init(hmap)
    /\ mutated = FALSE
    /\ \E hmap \in MapArgs : other = NomialData_init(hmap)
    /\ args = NoArgs
    /\ res = NoResult

\* a call of hash(other)
HashOther ==
    /\ other' = NomialData_hash(other).self
    /\ other' # other
    /\ UNCHANGED <<nd, mutated, dictorder, args, res, vkvars>>

\* nd == other
Compare ==
    /\ res = NoResult
    /\ res' = [raised |-> None, value |-> Val(NomialData_eq(nd, other))]
    /\ UNCHANGED <<nd, mutated, dictorder, other, args, vkvars>>

NextEq == ReadHash \/ HashOther \/ Compare

SpecEq == InitEq /\ [][NextEq]_vars

-----------------------------------------------------------------------------
(* The caller of the NomialMap operations *)

MapExpArgs == <<EmptyDict, "x" :> 1, ("x" :> 1) @@ ("y" :> 2)>>
MapCoefArgs == {-1, 1, 2}
MapUnitArgs == {None, Val("m"), Val("s")}

\* lists of terms, in which an exponent vector may come more than once
TermLists ==
    UNION {[1..n -> Elements(MapExpArgs) \X MapCoefArgs] : n \in 0..MaxTerms}

\* maps: lists of terms without repeated exponent vectors
Operands ==
    {[items |-> items, units |-> u] :
        items \in {t \in TermLists :
                     \A i \in 1..Len(t), j \in 1..Len(t) :
                        i < j => \E m \in 1..Len(MapExpArgs), n \in 1..Len(MapExpArgs) :
                                    /\ m < n
                                    /\ t[i][1] = MapExpArgs[m]
                                    /\ t[j][1] = MapExpArgs[n]},
        u \in MapUnitArgs}

EmptyMap == [items |-> << >>, units |-> None]

FromTermsCalls ==
    {[op |-> "fromTerms", terms |-> terms, units |-> u, a |-> EmptyMap,
      b |-> EmptyMap, var |-> "x"] : terms \in TermLists, u \in MapUnitArgs}

AddCalls ==
    {[op |-> "add", terms |-> << >>, units |-> None, a |-> a, b |-> b,
      var |-> "x"] : a \in Operands, b \in Operands}

CancelCalls ==
    {[op |-> "cancel", terms |-> << >>, units |-> None, a |-> a,
      b |-> EmptyMap, var |-> "x"] : a \in Operands}

\* what a map is differentiated by: a variable of the maps, or z, which no
\* map has
MapDiffArgs == {"x", "y", "z"}

\* differentiate(add(a, b), var) for maps a and b of the same unit
DiffSumCalls ==
    {[op |-> "diffsum", terms |-> << >>, units |-> None, a |-> p[1],
      b |-> p[2], var |-> v] :
        p \in {q \in Operands \X Operands : q[1].units = q[2].units},
        v \in MapDiffArgs}

\* a caller about to make one call
InitMap ==
    /\ descrs = << >>
    /\ keys = << >>
    /\ count = -1
    /\ calls = 0
    /\ dictorder = VarOrder
    /\ nd = NoTerms
    /\ mutated = FALSE
    /\ other = NoTerms
    /\ args \in FromTermsCalls \cup AddCalls \cup CancelCalls
    /\ res = NoResult

\* the map of a list of terms
FromTerms ==
    /\ res = NoResult
    /\ args.op = "fromTerms"
    /\ res' \in MapReturns([raised |-> None,
                            value |-> Val(NomialMap_fromTerms(args.terms,
                                                              args.units))])
    /\ UNCHANGED <<args, nd, mutated, dictorder, other, vkvars>>

\* add(a, b)
Add ==
    /\ res = NoResult
    /\ args.op = "add"
    /\ res' \in MapReturns(NomialMap_add(args.a, args.b))
    /\ args' = [args EXCEPT !.a = NomialMap_add(args.a, args.b).a,
                            !.b = NomialMap_add(args.a, args.b).b]
    /\ UNCHANGED <<nd, mutated, dictorder, other, vkvars>>

\* add(a, scale(a, -1))
Cancel ==
    /\ res = NoResult
    /\ args.op = "cancel"
    /\ res' \in MapReturns(NomialMap_add(args.a, NomialMap_scale(args.a, -1)))
    /\ args' = [args EXCEPT !.a = NomialMap_add(args.a,
                                       NomialMap_scale(args.a, -1)).a]
    /\ UNCHANGED <<nd, mutated, dictorder, other, vkvars>>

\* differentiate(add(a, b), var)
DiffSum ==
    /\ res = NoResult
    /\ args.op = "diffsum"
    /\ res' \in MapReturns([raised |-> None,
                            value |-> Val(NomialMap_diff(
                                NomialMap_add(args.a, args.b).value[1],
                                args.var))])
    /\ UNCHANGED <<args, nd, mutated, dictorder, other, vkvars>>

NextMap == FromTerms \/ Add \/ Cancel

SpecMap == InitMap /\ [][NextMap]_vars

\* a caller about to differentiate one sum
InitDiffSum ==
    /\ descrs = << >>
    /\ keys = << >>
    /\ count = -1
    /\ calls = 0
    /\ dictorder = VarOrder
    /\ nd = NoTerms
    /\ mutated = FALSE
    /\ other = NoTerms
    /\ args \in DiffSumCalls
    /\ res = NoResult

NextDiffSum == DiffSum

SpecDiffSum == InitDiffSum /\ [][NextDiffSum]_vars

-----------------------------------------------------------------------------
(* The owner of a NomialData who reads its views, replaces its map and
   resets it *)

\* line 34: the attributes that _reset sets, without the underscore
CacheAttrs == {"hashvalue", "varlocs", "exps", "cs", "varkeys", "values"}

\* the caches of self that hold a value
Realized(self) == {a \in CacheAttrs : self[a] # None}

\* an access of one of the lazily computed views, hash(nd) for hashvalue
ViewOf(self, view) ==
    CASE view = "hashvalue" -> NomialData_hash(self)
      [] view = "varlocs" -> NomialData_varlocs(self)
      [] view = "exps" -> NomialData_exps(self)
      [] view = "cs" -> NomialData_cs(self)
      [] view = "varkeys" -> NomialData_varkeys(self)
      [] view = "values" -> NomialData_values(self)

\* the maps that replace the map of a NomialData
ReplaceArgs == {m \in MapArgs : Len(m.items) = 1 /\ m.items[1][2] = -1}

InitCache ==
    /\ descrs = << >>
    /\ keys = << >>
    /\ count = -1
    /\ calls = 0
    /\ dictorder = VarOrder
    /\ \E hmap \in MapArgs : nd = NomialData_init(hmap)
    /\ mutated = FALSE
    /\ other = NoTerms
    /\ args = [op |-> "init"]
    /\ res = NoResult

\* a read of nd.exps, nd.cs, nd.varlocs, nd.varkeys or nd.values, or a
\* call of hash(nd)
Access(view) ==
    /\ nd' = ViewOf(nd, view).self
    /\ args' = [op |-> "read"]
    /\ UNCHANGED <<mutated, dictorder, other, res, vkvars>>

\* nd.hmap = hmap, once in the life of nd
ReplaceMap ==
    /\ ~mutated
    /\ \E hmap \in ReplaceArgs :
         /\ hmap # nd.hmap
         /\ nd' = [nd EXCEPT !.hmap = hmap]
    /\ mutated' = TRUE
    /\ args' = [op |-> "replace"]
    /\ UNCHANGED <<dictorder, other, res, vkvars>>

\* nd._reset(); the caller remembers which caches held a value
Reset ==
    /\ nd' = NomialData_reset(nd)
    /\ args' = [op |-> "reset", before |-> Realized(nd)]
    /\ UNCHANGED <<mutated, dictorder, other, res, vkvars>>

NextCache ==
    \/ Access("hashvalue")
    \/ Access("varlocs")
    \/ Access("exps")
    \/ Access("cs")
    \/ Access("varkeys")
    \/ Access("values")
    \/ ReplaceMap
    \/ Reset

SpecCache == InitCache /\ [][NextCache]_vars

-----------------------------------------------------------------------------
(* The reader of a SolutionArray *)

SolKeys == {"x", "y"}
SolValues == {<<"float", 2>>, <<"array", <<2, 3>>>>, <<"array", <<3, 3>>>>}
SolCosts == {<<"absent">>, <<"float", 2>>, <<"array", <<2, 3>>>>}

\* solution arrays of no, one and two solutions
Solutions ==
    UNION {{[cost |-> c, variables |-> v] : c \in SolCosts, v \in [K -> SolValues]} :
             K \in SUBSET SolKeys}

\* what is substituted into: the variables x and y, a variable w that no
\* solution has, and the strings "x" and "name"
PosyArgs ==
    {[kind |-> "Variable", key |-> k] : k \in {"x", "y", "w"}}
    \cup {[kind |-> "str", key |-> k] : k \in {"x", "name"}}

SolCalls ==
    {[op |-> o, sol |-> sol, posy |-> posy] :
        o \in {"subinto", "call"}, sol \in Solutions, posy \in PosyArgs}

\* a reader about to make one call
InitSol ==
    /\ descrs = << >>
    /\ keys = << >>
    /\ count = -1
    /\ calls = 0
    /\ dictorder = VarOrder
    /\ nd = NoTerms
    /\ mutated = FALSE
    /\ other = NoTerms
    /\ args \in SolCalls
    /\ res = NoResult

\* sol.subinto(posy)
Subinto ==
    /\ res = NoResult
    /\ args.op = "subinto"
    /\ res' = [raised |-> SolutionArray_subinto(args.sol, args.posy).raised,
               value |-> SolutionArray_subinto(args.sol, args.posy).value]
    /\ args' = [args EXCEPT !.sol = SolutionArray_subinto(@, args.posy).self]
    /\ UNCHANGED <<nd, mutated, dictorder, other, vkvars>>

\* sol(posy)
Call ==
    /\ res = NoResult
    /\ args.op = "call"
    /\ res' = [raised |-> SolutionArray_call(args.sol, args.posy).raised,
               value |-> SolutionArray_call(args.sol, args.posy).value]
    /\ args' = [args EXCEPT !.sol = SolutionArray_call(@, args.posy).self]
    /\ UNCHANGED <<nd, mutated, dictorder, other, vkvars>>

NextSol == Subinto \/ Call

SpecSol == InitSol /\ [][NextSol]_vars

-----------------------------------------------------------------------------
(* Properties of VarKey *)

KeyIds == 1..Len(keys)

Descr(k) == descrs[keys[k].descr]

\* the key k was made by VarKey(name, **kwargs) from a str or from no name
FromName(k) == ~IsVarKey(keys[k].given.name)

\* the call that made k passed an idx and no veckey
GivenIdxOnly(k) ==
    /\ FromName(k)
    /\ "idx" \in DOMAIN keys[k].given.kwargs
    /\ "veckey" \notin DOMAIN keys[k].given.kwargs

SameComponents(a, b) ==
    /\ keys[a].cleanstr = keys[b].cleanstr
    /\ VarKey_getattr(Heap, a, "lineage") = VarKey_getattr(Heap, b, "lineage")
    /\ VarKey_getattr(Heap, a, "unitrepr") = VarKey_getattr(Heap, b, "unitrepr")

\* C1: two VarKeys are equal if and only if they have the same rendered name
\* (cleanstr), the same lineage and the same unit representation.
C1_EqualIffSameComponents ==
    \A a \in KeyIds, b \in KeyIds :
        VarKey_eq(Heap, a, b) <=> SameComponents(a, b)

\* two keys that agree on the rendered name and the unit and differ in the
\* lineage alone
C1_Witness ==
    \E a \in KeyIds, b \in KeyIds :
        /\ keys[a].cleanstr = keys[b].cleanstr
        /\ Descr(a)["unitrepr"] = Descr(b)["unitrepr"]
        /\ VarKey_getattr(Heap, a, "lineage") = Val(LineageA0)
        /\ VarKey_getattr(Heap, b, "lineage") = Val(LineageA1)
        /\ ~VarKey_eq(Heap, a, b)

\* C2: two VarKeys of the same name and of different lineages are unequal,
\* and looking the bare name up in a collection that holds both is ambiguous.
C2_SameNameOtherLineage ==
    \A a \in KeyIds, b \in KeyIds :
        ( /\ Descr(a)["name"] = Descr(b)["name"]
          /\ VarKey_getattr(Heap, a, "lineage")
                # VarKey_getattr(Heap, b, "lineage") )
        => /\ ~VarKey_eq(Heap, a, b)
           /\ ConstraintSet_getitem(Heap, {a, b}, Descr(a)["name"][1])
                = "ValueError"

\* a key without a lineage and one with a lineage, both named "x"
C2_Witness ==
    \E a \in KeyIds, b \in KeyIds :
        /\ Descr(a)["name"] = Val("x")
        /\ Descr(b)["name"] = Val("x")
        /\ VarKey_getattr(Heap, a, "lineage") = None
        /\ VarKey_getattr(Heap, b, "lineage") = Val(LineageA0)

C3_HashState ==
    /\ \A a \in KeyIds, b \in KeyIds :
         VarKey_eq(Heap, a, b) => VarKey_hash(Heap, a) = VarKey_hash(Heap, b)
    /\ \A a \in KeyIds : VarKey_hash(Heap, a) = PyHash(keys[a].eqstr)

C3_HashStable ==
    \A a \in KeyIds :
        VarKey_hash([descrs |-> descrs', keys |-> keys', count |-> count'], a)
            = VarKey_hash(Heap, a)

\* C3: equal VarKeys have equal hashes; the hash of a key is the hash of its
\* eqstr, and no later call changes what __hash__ returns for it.
C3_HashAgreesWithEq == []C3_HashState /\ [][C3_HashStable]_vars

\* two equal keys at different addresses, the first made before the second
C3_Witness ==
    \E a \in KeyIds, b \in KeyIds :
        /\ a < b
        /\ FromName(a) /\ FromName(b)
        /\ VarKey_eq(Heap, a, b)

\* the ways of writing no unit; a unit that is not passed reads as None
DimlessForms == {None, Val(""), Val("-")}

GivenDimless(k) ==
    /\ FromName(k)
    /\ "unitrepr" \notin DOMAIN keys[k].given.kwargs
    /\ Get(keys[k].given.kwargs, "units") \in DimlessForms

\* C4: a unit given as "", as "-", as None or not at all is normalised to
\* units None and unit representation "-", so two such keys that share
\* name, lineage and idx are equal and hash alike.
C4_DimensionlessNormalised ==
    /\ \A a \in KeyIds :
         GivenDimless(a) => /\ Descr(a)["units"] = None
                            /\ Descr(a)["unitrepr"] = Val("-")
    /\ \A a \in KeyIds, b \in KeyIds :
         ( /\ GivenDimless(a) /\ GivenDimless(b)
           /\ Descr(a)["name"] = Descr(b)["name"]
           /\ VarKey_getattr(Heap, a, "lineage")
                = VarKey_getattr(Heap, b, "lineage")
           /\ VarKey_getattr(Heap, a, "idx") = VarKey_getattr(Heap, b, "idx") )
         => /\ VarKey_eq(Heap, a, b)
            /\ VarKey_hash(Heap, a) = VarKey_hash(Heap, b)

\* one key whose unit was given as "" and one whose unit was given as None,
\* otherwise alike
C4_Witness ==
    \E a \in KeyIds, b \in KeyIds :
        /\ GivenDimless(a) /\ GivenDimless(b)
        /\ "units" \in DOMAIN keys[a].given.kwargs
        /\ "units" \in DOMAIN keys[b].given.kwargs
        /\ keys[a].given.kwargs["units"] = Val("")
        /\ keys[b].given.kwargs["units"] = None
        /\ Descr(a)["name"] = Descr(b)["name"]
        /\ VarKey_getattr(Heap, a, "lineage") = VarKey_getattr(Heap, b, "lineage")
        /\ VarKey_getattr(Heap, a, "idx") = VarKey_getattr(Heap, b, "idx")

\* the key that VarKey(**attrs) makes now, for the attribute bag of k with
\* its idx removed
FreshWithoutIdx(k) ==
    VarKey_fromDict(Heap, [a \in DOMAIN Descr(k) \ {"idx"} |-> Descr(k)[a]])

EqstrOf(r) == r.st.keys[r.self].eqstr

HashOf(r) == VarKey_hash(r.st, r.self)

VeckeyMatches(k, vk) ==
    /\ keys[vk].eqstr = EqstrOf(FreshWithoutIdx(k))
    /\ VarKey_hash(Heap, vk) = HashOf(FreshWithoutIdx(k))
    /\ "idx" \notin DOMAIN Descr(vk)
    /\ Descr(vk)["name"] = Descr(k)["name"]
    /\ VarKey_getattr(Heap, vk, "lineage") = VarKey_getattr(Heap, k, "lineage")
    /\ Descr(vk)["unitrepr"] = Descr(k)["unitrepr"]

\* C5: the veckey of a key made with an idx and no veckey equals, and hashes
\* like, a fresh VarKey of the same attributes without the idx; the veckey
\* has no idx, and the component's attribute bag keeps its idx.
C5_VeckeyIsKeyWithoutIdx ==
    \A k \in KeyIds :
        (GivenIdxOnly(k) \/ (~FromName(k) /\ keys[k].veckey # None))
        => /\ keys[k].veckey # None
           /\ VeckeyMatches(k, keys[k].veckey[1])
           /\ "idx" \in DOMAIN Descr(k)
           /\ FromName(k) => Descr(k)["idx"] = keys[k].given.kwargs["idx"]

\* an unnamed component with a lineage and a unit
C5_Witness ==
    \E k \in KeyIds :
        /\ GivenIdxOnly(k)
        /\ keys[k].given.name = None
        /\ VarKey_getattr(Heap, k, "lineage") = Val(LineageA0)
        /\ Descr(k)["unitrepr"] = Val("m")

\* C6: a VarKey made from an existing VarKey shares that key's attribute bag
\* (the same object) and is equal to it, with the same hash.
C6_DerivedSharesDescr ==
    \A k \in KeyIds :
        ~FromName(k)
        => /\ keys[k].descr = keys[keys[k].given.name[2]].descr
           /\ VarKey_eq(Heap, k, keys[k].given.name[2])
           /\ VarKey_hash(Heap, k) = VarKey_hash(Heap, keys[k].given.name[2])

\* a key made from a vector component that has a lineage
C6_Witness ==
    \E k \in KeyIds :
        /\ ~FromName(k)
        /\ VarKey_getattr(Heap, k, "idx") # None
        /\ VarKey_getattr(Heap, k, "lineage") # None

\* the key k was made without a name (None, or the empty string)
Unnamed(k) == FromName(k) /\ ~TruthyStr(keys[k].given.name)

C7_UnnamedState ==
    \A a \in KeyIds, b \in KeyIds :
        (a # b /\ Unnamed(a) /\ Unnamed(b))
        => /\ Descr(a)["name"] # Descr(b)["name"]
           /\ ~VarKey_eq(Heap, a, b)

C7_CounterStep == count' >= count

\* C7: the unique-id counter never decreases, and two VarKeys made without a
\* name get different placeholder names and are unequal.
C7_UnnamedKeysDiffer == []C7_UnnamedState /\ [][C7_CounterStep]_vars

\* two unnamed keys of identical attributes, the second of them named by a
\* placeholder of two digits
C7_Witness ==
    \E a \in KeyIds, b \in KeyIds :
        /\ a # b /\ Unnamed(a) /\ Unnamed(b)
        /\ keys[a].given.kwargs = keys[b].given.kwargs
        /\ Descr(b)["name"] = Val(Placeholder(10))

\* C8, as claimed: a VarKey given an idx and no veckey is never made (the
\* call fails and yields no key).
C8_IdxWithoutVeckeyFails == \A k \in KeyIds : ~GivenIdxOnly(k)

\* C8, amended: a VarKey given an idx and no veckey is made, and the same
\* call makes its parent: the next object on the heap, a key made by name
\* from the component's attributes, which becomes the component's veckey.
C8_IdxWithoutVeckeyMakesParent ==
    \A k \in KeyIds :
        GivenIdxOnly(k)
        => /\ k + 1 \in KeyIds
           /\ keys[k].veckey = Val(k + 1)
           /\ keys[k + 1].given.name = Descr(k)["name"]
           /\ "idx" \notin DOMAIN keys[k + 1].given.kwargs
           /\ Val(k + 1) \in keys[k].keyobjs

\* a named component made without a veckey
C8_Witness ==
    \E k \in KeyIds : GivenIdxOnly(k) /\ TruthyStr(keys[k].given.name)

C9_KeysImmutableStep ==
    \A k \in KeyIds :
        /\ k \in 1..Len(keys')
        /\ keys'[k] = keys[k]
        /\ descrs'[keys[k].descr] = descrs[keys[k].descr]

\* C9: no call changes a VarKey that exists already: its attribute bag, its
\* eqstr, its hash and its other fields stay as they are.
C9_KeysImmutable == [][C9_KeysImmutableStep]_vars

\* a key made from an existing vector component along with keyword
\* arguments: it shares the component's bag and has a parent made for it
C9_Witness ==
    \E k \in KeyIds :
        /\ ~FromName(k)
        /\ keys[k].given.kwargs # EmptyDict
        /\ keys[k].veckey # None

-----------------------------------------------------------------------------
(* Properties of NomialData *)

\* what a read of exps, and a read of cs after it, return in this state
ExpsRead == NomialData_exps(nd).value

CsRead == NomialData_cs(NomialData_exps(nd).self).value

\* C10: while the map is not changed after construction, exps and cs are as
\* long as the map, the magnitude of cs[i] is the map's coefficient for
\* exps[i], in whatever order the views were read, and exps is the tuple of
\* the map's keys in the map's enumeration order.
C10_ExpsPairedWithCs ==
    ~mutated
    => /\ Len(ExpsRead) = Len(nd.hmap.items)
       /\ Len(CsRead.mags) = Len(nd.hmap.items)
       /\ \A i \in 1..Len(ExpsRead) :
            /\ DictHas(nd.hmap, ExpsRead[i])
            /\ CsRead.mags[i] = DictGet(nd.hmap, ExpsRead[i])
       /\ ExpsRead = DictKeys(nd.hmap)
       /\ NomialData_cs(nd).value = CsRead

\* a map of two terms with different coefficients and a unit, of which
\* varlocs was read first and cs after it
C10_Witness ==
    /\ ~mutated
    /\ Len(nd.hmap.items) = 2
    /\ nd.hmap.items[1][2] # nd.hmap.items[2][2]
    /\ nd.hmap.units # None
    /\ nd.varlocs # None
    /\ nd.exps # None
    /\ nd.cs # None

\* what a read of varlocs returns in this state
VarlocsRead == NomialData_varlocs(nd).value

StrictlyIncreasing(list) ==
    \A j \in 1..Len(list), k \in 1..Len(list) : j < k => list[j] < list[k]

\* the indices, counted from 0 as Python counts, of the exponent vectors of
\* exps that have v as a key
TermsWith(exps, v) == {i \in 0..(Len(exps) - 1) : v \in DOMAIN exps[i + 1]}

\* C11: varlocs maps each variable v to exactly the indices i for which v is
\* a key of exps[i], in strictly increasing order and without repeats, and
\* a variable that is in no exponent vector is not a key of varlocs.
C11_VarlocsIndexTerms ==
    /\ \A v \in DOMAIN VarlocsRead :
         /\ Elements(VarlocsRead[v]) = TermsWith(ExpsRead, v)
         /\ StrictlyIncreasing(VarlocsRead[v])
         /\ VarlocsRead[v] # << >>
    /\ \A i \in 1..Len(ExpsRead) : DOMAIN ExpsRead[i] \subseteq DOMAIN VarlocsRead
    /\ NomialData_exps(NomialData_varlocs(nd).self).value = ExpsRead

\* varlocs was read of a map of two terms that share x, of which only the
\* second has y
C11_Witness ==
    /\ nd.varlocs # None
    /\ Len(ExpsRead) = 2
    /\ DOMAIN ExpsRead[1] = {"x"}
    /\ DOMAIN ExpsRead[2] = {"x", "y"}
    /\ nd.varlocs[1]["x"] = <<0, 1>>
    /\ nd.varlocs[1]["y"] = <<1>>

\* the variables that are keys of an exponent vector of the map of nd
VarsOfMap ==
    UNION {DOMAIN nd.hmap.items[i][1] : i \in 1..Len(nd.hmap.items)}

NoRepeats(list) ==
    \A j \in 1..Len(list), k \in 1..Len(list) : j # k => list[j] # list[k]

\* vks holds exactly the variables of the map, each once, and they are the
\* keys of varlocs
VksHoldsVarsOfMap ==
    /\ Elements(nd.vks) = VarsOfMap
    /\ NoRepeats(nd.vks)
    /\ Elements(nd.vks) = DOMAIN VarlocsRead

\* C12 as stated: while the map is as it was at construction, vks holds
\* exactly the variables that are keys of an exponent vector of the map, each
\* once, and enumerates them in the order of their first appearance; its
\* key set is that of varlocs.
C12_VksInOrderOfFirstAppearance ==
    ~mutated
    => /\ VksHoldsVarsOfMap
       /\ nd.vks = FirstSeen(DictKeys(nd.hmap), 1, << >>)

\* C12: while the map is as it was at construction, vks holds exactly the
\* variables that are keys of an exponent vector of the map, each once, and
\* its key set is that of varlocs; the order in which it enumerates them is
\* the dict's.
C12_VksAreVarsOfMap == ~mutated => VksHoldsVarsOfMap

\* a map of which the first term has x alone and the second has x and y,
\* in a run whose dicts enumerate y before x
C12_Witness ==
    /\ ~mutated
    /\ Len(nd.hmap.items) = 2
    /\ DOMAIN nd.hmap.items[1][1] = {"x"}
    /\ DOMAIN nd.hmap.items[2][1] = {"x", "y"}
    /\ nd.vks = <<"y", "x">>
    /\ nd.varlocs # None

\* the variables of the map of nd that var matches: those filed under it
Matches(var) == {vk \in VarsOfMap : var \in FiledUnder(vk)}

\* C13: differentiating by a variable that matches none of the keys raises
\* no error and returns a NomialData whose map has one term, with the empty
\* exponent vector and the coefficient zero, and no unit.
C13_DiffByAbsentVariableIsZero ==
    (calls > 0 /\ Matches(args.var) = {})
    => /\ res.raised = None
       /\ res.value # None
       /\ res.value[1].hmap.items = <<<<EmptyDict, 0>>>>
       /\ res.value[1].hmap.units = None
       /\ res.value[1].units = None

\* a map in metres that has x alone was differentiated by y
C13_Witness ==
    /\ calls > 0
    /\ args.var = "y"
    /\ VarsOfMap = {"x"}
    /\ nd.hmap.units = Val("m")
    /\ res.value # None

\* the call of diff just made resolved its argument to several keys
AmbiguousDiff == calls > 0 /\ Cardinality(Matches(args.var)) > 1

C14_AmbiguousRaises ==
    AmbiguousDiff
    => /\ res.raised = Val("ValueError: multiple variables found for key")
       /\ res.value = None

C14_MapKept ==
    (calls' # calls /\ Cardinality(Matches(args'.var)) > 1)
    => nd'.hmap = nd.hmap

\* C14: differentiating by a reference that resolves to more than one key
\* raises the "multiple variables" error, returns no NomialData and leaves
\* the map of the aggregate as it was.
C14_AmbiguousDiffFails == []C14_AmbiguousRaises /\ [][C14_MapKept]_vars

\* a map that has x and y was differentiated by the vector v of both
C14_Witness ==
    /\ AmbiguousDiff
    /\ args.var = "v"
    /\ VarsOfMap = {"x", "y"}
    /\ res.raised # None

C15_DiffStep ==
    calls' # calls
    => /\ nd'.hmap = nd.hmap
       /\ nd'.units = nd.units
       /\ nd'.vks = nd.vks
       /\ nd'.exps = nd.exps
       /\ nd'.cs = nd.cs
       /\ nd'.varlocs = nd.varlocs
       /\ nd'.hashvalue = nd.hashvalue
       /\ res'.value # None
          => /\ res'.value[1].exps = None
             /\ res'.value[1].cs = None
             /\ res'.value[1].varlocs = None
             /\ res'.value[1].hashvalue = None

\* C15: no call of diff changes the aggregate it is called on: its map,
\* units, vks, exps, cs, varlocs and hash are after the call what they were
\* before it, and what it returns is a NomialData just constructed.
C15_DiffKeepsAggregate == [][C15_DiffStep]_vars

\* two calls of diff were made on an aggregate whose views and hash had
\* been read, the second of which returned another map than the
\* aggregate's
C15_Witness ==
    /\ calls = 2
    /\ nd.exps # None
    /\ nd.cs # None
    /\ nd.varlocs # None
    /\ nd.hashvalue # None
    /\ Len(nd.hmap.items) = 2
    /\ res.value # None
    /\ res.value[1].hmap # nd.hmap
    /\ res.value[1].hmap # [items |-> <<<<EmptyDict, 0>>>>, units |-> None]

\* the terms of a map, as a set
Terms(hmap) == Elements(hmap.items)

\* C16: two NomialData compare equal exactly when their maps have the same
\* terms with the same coefficients and their units are the same, in
\* whatever order the two maps enumerate their terms.
C16_EqualIffSameContent ==
    res.value # None
    => (res.value[1] <=> /\ Terms(nd.hmap) = Terms(other.hmap)
                         /\ nd.hmap.units = other.hmap.units)

\* two maps of the same two terms in different orders, with the same unit,
\* were found equal
C16_Witness ==
    /\ res.value = Val(TRUE)
    /\ Len(nd.hmap.items) = 2
    /\ nd.hmap.items # other.hmap.items
    /\ nd.hmap.units = Val("m")

\* what hash(nd) returns in this state
HashRead == NomialData_hash(nd).value

C17_EqualHashAlike ==
    /\ NomialData_eq(nd, other)
       => HashRead = NomialData_hash(other).value
    /\ nd.hashvalue # None => nd.hashvalue = Val(ComputeHash(nd.hmap))
    /\ NomialData_hash(NomialData_hash(nd).self).value = HashRead

C17_HashStep == HashRead' = HashRead

\* C17: equal NomialData have equal hashes, in whatever order their terms
\* were put together, and every call of hash on one aggregate returns the
\* same value.
C17_HashAgreesWithEq == []C17_EqualHashAlike /\ [][C17_HashStep]_vars

\* two equal aggregates whose maps enumerate their two terms in different
\* orders, both hashed
C17_Witness ==
    /\ NomialData_eq(nd, other)
    /\ Len(nd.hmap.items) = 2
    /\ nd.hmap.items # other.hmap.items
    /\ nd.hashvalue # None
    /\ other.hashvalue # None
    /\ nd.hashvalue = other.hashvalue

\* the sum of the coefficients that the first n terms of a list give for
\* the exponent vector exp
RECURSIVE SumFor(_, _, _)
SumFor(terms, exp, n) ==
    IF n = 0 THEN 0
    ELSE SumFor(terms, exp, n - 1) + (IF terms[n][1] = exp THEN terms[n][2] ELSE 0)

\* the exponent vectors of a list of terms
ExpsOf(terms) == {terms[i][1] : i \in 1..Len(terms)}

\* the map returned by the call
Returned == res.value[1]

\* C18: the map built from a list of terms has no exponent vector twice, has
\* the exponent vectors of the list, and gives each the sum of the
\* coefficients that the list gives for it.
C18_FromTermsSumsDuplicates ==
    (args.op = "fromTerms" /\ res # NoResult)
    => /\ res.raised = None
       /\ res.value # None
       /\ \A i \in 1..Len(Returned.items), j \in 1..Len(Returned.items) :
            i # j => Returned.items[i][1] # Returned.items[j][1]
       /\ ExpsOf(Returned.items) = ExpsOf(args.terms)
       /\ \A i \in 1..Len(Returned.items) :
            Returned.items[i][2] =
                SumFor(args.terms, Returned.items[i][1], Len(args.terms))
       /\ Returned.units = args.units

\* the list of (x, 2) and (x, 1) gave the one term (x, 3)
C18_Witness ==
    /\ args.op = "fromTerms"
    /\ args.terms = <<<<"x" :> 1, 2>>, <<"x" :> 1, 1>>>>
    /\ res.value # None
    /\ Returned.items = <<<<"x" :> 1, 3>>>>

\* the coefficient of exp in a map, 0 if the map does not have it
CoefOf(hmap, exp) == IF DictHas(hmap, exp) THEN DictGet(hmap, exp) ELSE 0

\* C19: a sum of two maps has no term whose summed coefficient is zero, and
\* the sum of a map and of the same map times -1 has no terms.
C19_AddPrunesCancelledTerms ==
    /\ (args.op = "cancel" /\ res # NoResult)
       => /\ res.raised = None
          /\ res.value # None
          /\ Returned.items = << >>
    /\ (args.op = "add" /\ res.value # None)
       => /\ \A i \in 1..Len(Returned.items) : Returned.items[i][2] # 0
          /\ \A exp \in ExpsOf(args.a.items) \cup ExpsOf(args.b.items) :
               CoefOf(args.a, exp) + CoefOf(args.b, exp) = 0
               => exp \notin ExpsOf(Returned.items)

\* a map of two terms in metres was added to itself times -1
C19_Witness ==
    /\ args.op = "cancel"
    /\ Len(args.a.items) = 2
    /\ args.a.units = Val("m")
    /\ res.value # None
    /\ Returned.items = << >>

\* the units of this model are incompatible when they differ
IncompatibleAdd == args.op = "add" /\ args.a.units # args.b.units

C20_MismatchRaises ==
    (IncompatibleAdd /\ res # NoResult)
    => /\ res.raised = Val("ValueError: incompatible units")
       /\ res.value = None

C20_OperandsKept == IncompatibleAdd => args' = args

\* C20: adding two maps whose units are incompatible raises an error, gives
\* no map, not a partly combined one either, and leaves both operands as
\* they were.
C20_UnitMismatchFails == []C20_MismatchRaises /\ [][C20_OperandsKept]_vars

\* a map in metres and a map without unit, each with terms, were added
C20_Witness ==
    /\ args.op = "add"
    /\ args.a.units = Val("m")
    /\ args.b.units = None
    /\ args.a.items # << >>
    /\ args.b.items # << >>
    /\ res.raised # None

\* the call of diff just made resolved its argument to the one key vk
DiffBy(vk) == calls > 0 /\ Matches(args.var) = {vk} /\ res.value # None

\* the map of the NomialData that diff returned
Derivative == res.value[1].hmap

\* the exponent vector that the derivative of a term with exponent vector
\* exp has: exp itself if it is without vk, else exp with the exponent of vk
\* one less, and without vk if that is zero
Lowered(exp, vk) ==
    IF vk \notin DOMAIN exp THEN exp
    ELSE [w \in {u \in DOMAIN exp : u # vk \/ exp[u] # 1} |->
             IF w = vk THEN exp[w] - 1 ELSE exp[w]]

\* the sum, over the first n terms, of coefficient times exponent of vk of
\* the terms whose derivative has the exponent vector target
RECURSIVE DerivedSum(_, _, _, _)
DerivedSum(items, vk, target, n) ==
    IF n = 0 THEN 0
    ELSE DerivedSum(items, vk, target, n - 1)
         + (IF Lowered(items[n][1], vk) = target /\ vk \in DOMAIN items[n][1]
            THEN items[n][2] * items[n][1][vk] ELSE 0)

\* C21: differentiating by a variable turns each term whose exponent of it
\* is e, not zero, into a term with the exponent e-1, the variable being
\* left out of the exponent vector when e-1 is zero, and with the
\* coefficient times e; terms that come to have the same exponent vector
\* are combined into one entry.
C21_DiffLowersExponent ==
    \A vk \in Elements(VarOrder) :
      DiffBy(vk)
      => /\ \A i \in 1..Len(nd.hmap.items) :
              vk \in DOMAIN nd.hmap.items[i][1]
              => /\ DictHas(Derivative, Lowered(nd.hmap.items[i][1], vk))
                 /\ DictGet(Derivative, Lowered(nd.hmap.items[i][1], vk)) =
                      DerivedSum(nd.hmap.items, vk,
                                 Lowered(nd.hmap.items[i][1], vk),
                                 Len(nd.hmap.items))
         /\ NoRepeats(DictKeys(Derivative))

\* the map of 2 x y^2 and of the constant -1 was differentiated by y,
\* which gives 4 x y, and by x before or after
C21_Witness ==
    /\ DiffBy("y")
    /\ Terms(nd.hmap) = {<<("x" :> 1) @@ ("y" :> 2), 2>>, <<EmptyDict, -1>>}
    /\ DictHas(Derivative, ("x" :> 1) @@ ("y" :> 1))
    /\ DictGet(Derivative, ("x" :> 1) @@ ("y" :> 1)) = 4
    /\ calls = 2

\* C22: differentiating by a variable that some terms have keeps every term
\* without the variable, with its exponent vector as it was and the
\* coefficient zero, to which the derivatives that come to have that
\* exponent vector are added; it drops no term.
C22_DiffKeepsTermsWithoutVariable ==
    \A vk \in Elements(VarOrder) :
      DiffBy(vk)
      => /\ \A i \in 1..Len(nd.hmap.items) :
              vk \notin DOMAIN nd.hmap.items[i][1]
              => /\ DictHas(Derivative, nd.hmap.items[i][1])
                 /\ DictGet(Derivative, nd.hmap.items[i][1]) =
                      DerivedSum(nd.hmap.items, vk, nd.hmap.items[i][1],
                                 Len(nd.hmap.items))
         /\ ExpsOf(Derivative.items) =
               {Lowered(nd.hmap.items[i][1], vk) : i \in 1..Len(nd.hmap.items)}
         /\ Derivative.units = nd.hmap.units

\* the map of 2 x y^2 and -x was differentiated by y, which gives 4 x y
\* and 0 x
C22_Witness ==
    /\ DiffBy("y")
    /\ Terms(nd.hmap) = {<<("x" :> 1) @@ ("y" :> 2), 2>>, <<"x" :> 1, -1>>}
    /\ Terms(Derivative) = {<<("x" :> 1) @@ ("y" :> 1), 4>>, <<"x" :> 1, 0>>}

\* add(differentiate(a, var), differentiate(b, var)) for the operands of
\* the call
SumOfDerivatives ==
    NomialMap_add(NomialMap_diff(args.a, args.var),
                  NomialMap_diff(args.b, args.var)).value[1]

\* C23: for maps a and b of compatible units and a variable v,
\* differentiate(add(a, b), v) and add(differentiate(a, v),
\* differentiate(b, v)) are the same map: the same terms with the same
\* coefficients, and the same unit.
C23_DiffIsLinear ==
    (args.op = "diffsum" /\ res # NoResult)
    => /\ Terms(Returned) = Terms(SumOfDerivatives)
       /\ Returned.units = SumOfDerivatives.units

\* the call just made was for a key of the solution's variables
LookedUpKey == res # NoResult /\ args.posy.key \in DOMAIN args.sol.variables

C24_StoredValueReturned ==
    LookedUpKey
    => /\ res.raised = None
       /\ res.value = Val(args.sol.variables[args.posy.key])

C24_SolutionKept == args'.sol = args.sol

\* C24: for a key x of the solution's variables, sol.subinto(x) and sol(x)
\* both return the stored value sol["variables"][x], not a substitution,
\* whether the solution array holds one solution or many, and neither
\* call changes the solution array.
C24_StoredValueTakesPrecedence ==
    []C24_StoredValueReturned /\ [][C24_SolutionKept]_vars

\* sol(x) was called on an array of two solutions that has x, a Variable
\* that could be substituted into
C24_Witness ==
    /\ LookedUpKey
    /\ args.op = "call"
    /\ args.posy = [kind |-> "Variable", key |-> "x"]
    /\ args.sol.cost = <<"array", <<2, 3>>>>
    /\ res.value = Val(<<"array", <<2, 3>>>>)

\* C25: a NomialData is in one of exactly two states: none of the six
\* lazily computed views is cached, or all of them are; no sequence of
\* view accesses leaves some cached and others not.
C25_NoneOrAllCached == Realized(nd) = {} \/ Realized(nd) = CacheAttrs

\* every view is cached by itself: a step of the owner either is a reset
\* and leaves no cache, or leaves every cache that held a value as it was;
\* the one cache that comes with another is exps, which varlocs reads
C25_CachesKeptUntilReset ==
    \/ Realized(nd') = {}
    \/ \A a \in Realized(nd) : nd'[a] = nd[a]

C25_VarlocsCachesExps == nd.varlocs # None => nd.exps # None

\* C25, as it holds: each of the six views is cached on its own first
\* access and stays cached with the same value until the reset, which
\* clears all six; accessing varlocs caches exps too, so varlocs is never
\* cached without exps, and any other subset of the six can be cached.
C25_ViewsCachedOneByOne ==
    []C25_VarlocsCachesExps /\ [][C25_CachesKeptUntilReset]_vars

\* cs and the hash were read and nothing else
C25_Witness == Realized(nd) = {"cs", "hashvalue"} /\ args.op = "read"

\* the map of nd was replaced and the call last made is the reset
ResetAfterReplace == mutated /\ args.op = "reset"

\* the three attributes that __init__ computes, as it computes them from
\* the map nd now has
EagerReflectMap ==
    /\ Elements(nd.vks) = VarsOfMap
    /\ nd.units = nd.hmap.units
    /\ nd.any_nonpositive_cs = NomialData_init(nd.hmap).any_nonpositive_cs

\* what the next access of each view gives, as a NomialData made from the
\* map nd now has gives it
LazyReflectMap ==
    \A view \in CacheAttrs :
        ViewOf(nd, view).value = ViewOf(NomialData_init(nd.hmap), view).value

\* C26: after the map of a NomialData is replaced and the reset is run,
\* vks, units, the non-positive-coefficient flag, exps, cs, varlocs, the
\* varkeys and values views and the hash all reflect the new map.
C26_ResetReflectsNewMap ==
    ResetAfterReplace => EagerReflectMap /\ LazyReflectMap

\* C27: the reset is one step that leaves all six caches (hash, varlocs,
\* exps, cs, varkeys view, values view) empty, whichever of them held a
\* value before, and leaves the map as it was.
C27_ResetClearsAllCaches ==
    [][args'.op = "reset" => /\ Realized(nd') = {}
                             /\ nd'.hmap = nd.hmap]_vars

\* a reset that found exps, varlocs and the values view cached and the
\* other three not
C27_Witness ==
    /\ args.op = "reset"
    /\ args.before = {"exps", "varlocs", "values"}
    /\ Realized(nd) = {}
    /\ nd.hmap.items # << >>

\* the key k is a component of a vector
IsComponent(k) == "idx" \in DOMAIN Descr(k)

\* a and b are components of one vector: the same name, lineage and unit
SameVector(a, b) ==
    /\ IsComponent(a) /\ IsComponent(b)
    /\ Descr(a)["name"] = Descr(b)["name"]
    /\ VarKey_getattr(Heap, a, "lineage") = VarKey_getattr(Heap, b, "lineage")
    /\ Descr(a)["unitrepr"] = Descr(b)["unitrepr"]

\* the construction of k made a veckey
Synthesized(k) == keys[k].veckey # None

\* C28: over the component constructions of one vector the veckey is
\* synthesized exactly once, by the first component, and every later
\* component references that same veckey object.
C28_VeckeySynthesizedOnce ==
    \A a \in KeyIds, b \in KeyIds :
        (a < b /\ SameVector(a, b))
        => /\ ~Synthesized(b)
           /\ VarKey_veckey(Heap, b) = VarKey_veckey(Heap, a)

\* C28, as it holds: every component constructed without a veckey among
\* its attributes synthesizes a veckey of its own, a new object that no
\* other key references as its synthesized veckey; a component constructed
\* with a veckey references that one and synthesizes none; the veckeys of
\* the components of one vector are equal and hash alike.
C28_VeckeySynthesizedPerComponent ==
    \A a \in KeyIds :
        /\ IsComponent(a) /\ "veckey" \notin DOMAIN Descr(a)
           => /\ keys[a].veckey = Val(a + 1)
              /\ \A b \in KeyIds \ {a} : keys[b].veckey # keys[a].veckey
        /\ IsComponent(a) /\ "veckey" \in DOMAIN Descr(a)
           => ~Synthesized(a)
        /\ \A b \in KeyIds :
             SameVector(a, b)
             => /\ VarKey_eq(Heap, VarKey_veckey(Heap, a)[1],
                             VarKey_veckey(Heap, b)[1])
                /\ VarKey_hash(Heap, VarKey_veckey(Heap, a)[1])
                   = VarKey_hash(Heap, VarKey_veckey(Heap, b)[1])

\* the components 0 and 1 of one vector, made one after the other without
\* a veckey, have two veckey objects
C28_Witness ==
    \E a \in KeyIds, b \in KeyIds :
        /\ a < b /\ SameVector(a, b)
        /\ Descr(a)["idx"] = Val(<<0>>) /\ Descr(b)["idx"] = Val(<<1>>)
        /\ Synthesized(a) /\ Synthesized(b)
        /\ keys[a].veckey # keys[b].veckey

\* the keys that the step makes from an existing VarKey and keyword
\* arguments
DerivedWithKwargs ==
    {k \in (Len(keys) + 1)..Len(keys') :
        /\ IsVarKey(keys'[k].given.name)
        /\ keys'[k].given.kwargs # EmptyDict}

C29_KwargsIgnoredStep ==
    \A k \in DerivedWithKwargs :
        /\ keys'[k].descr = keys[keys'[k].given.name[2]].descr
        /\ descrs'[keys'[k].descr] = descrs[keys'[k].descr]
        /\ keys'[k].eqstr = keys[keys'[k].given.name[2]].eqstr
        /\ keys'[k].hashvalue = keys[keys'[k].given.name[2]].hashvalue
        /\ keys'[k].cleanstr = keys[keys'[k].given.name[2]].cleanstr
        /\ count' = count

RestoredKey == res.value[1]

SavedKey == args.of

C30_RestoredEqualsSaved ==
    res # NoResult
    => /\ RestoredKey # SavedKey
       /\ VarKey_eq(Heap, RestoredKey, SavedKey)
       /\ VarKey_hash(Heap, RestoredKey) = VarKey_hash(Heap, SavedKey)
       /\ Descr(RestoredKey)["name"] = Descr(SavedKey)["name"]
       /\ VarKey_getattr(Heap, RestoredKey, "idx")
          = VarKey_getattr(Heap, SavedKey, "idx")

C30_SaveKeepsKeyAndCounter ==
    (res = NoResult /\ res' # NoResult)
    => /\ count' = count
       /\ keys'[args'.of] = keys[args'.of]
       /\ descrs'[keys[args'.of].descr] = descrs[keys[args'.of].descr]

\* C30: a VarKey saved with __getstate__ and restored with __setstate__
\* is equal to the original and has its hash, its name and its idx, for
\* given and generated names and every lineage, idx and unit; the
\* restoring does not advance the unique-id counter, and the saving leaves
\* the original key and its attribute bag as they were.
C30_SaveRestoreRoundTrip ==
    []C30_RestoredEqualsSaved /\ [][C30_SaveKeepsKeyAndCounter]_vars

\* an unnamed component with a lineage, a unit and a function was saved
\* and restored; its placeholder has two digits
C30_Witness ==
    /\ res # NoResult
    /\ Unnamed(SavedKey)
    /\ Descr(SavedKey)["name"] = Val(Placeholder(9))
    /\ Descr(RestoredKey)["name"] = Val(Placeholder(9))
    /\ VarKey_getattr(Heap, RestoredKey, "lineage") = Val(LineageA0)
    /\ VarKey_getattr(Heap, RestoredKey, "idx") = Val(<<0>>)
    /\ Descr(RestoredKey)["unitrepr"] = Val("m")
    /\ VarKey_getattr(Heap, RestoredKey, "value") = Val("<function f>")
    /\ count = 9

====
